---- MODULE Spec2Model ----
(***************************************************************************)
(* docs/conf.py of stm32-devops-template: the Sphinx configuration module. *)
(*                                                                         *)
(* The file is a Python module body: a sequence of top-level assignment    *)
(* statements that the documentation generator executes top to bottom in   *)
(* a fresh namespace and then reads.  The model is the evaluation of that  *)
(* module body (one step per operand of a display or f-string, one step    *)
(* per name binding), followed by the generator reading the names and the  *)
(* theme rendering the "edit on repository" link from html_context.        *)
(***************************************************************************)
EXTENDS Naturals, Sequences, FiniteSets, TLC

VARIABLES pc, stack, env, stores, status, lastRead, link

vars == <<pc, stack, env, stores, status, lastRead, link>>

----------------------------------------------------------------------------
(* Python values.  A string is a TLA+ string, so that concatenation,       *)
(* length and character access are computed and not assumed.               *)

StrV(s) == [t |-> "str", v |-> s]

BoolV(b) == [t |-> "bool", v |-> b]

ListV(elts) == [t |-> "list", v |-> elts]

DictV(items) == [t |-> "dict", v |-> items]

\* The value of a name that has no binding yet.
Unbound == [t |-> "unbound", v |-> <<>>]

IsBound(val) == val.t # "unbound"

\* d[k] = val on a dict kept as its insertion-ordered items: an existing key
\* keeps its position and takes the new value, a new key is appended.
DictSet(d, k, val) ==
    IF \E i \in 1..Len(d) : d[i].k = k
    THEN [i \in 1..Len(d) |-> IF d[i].k = k THEN [k |-> k, v |-> val] ELSE d[i]]
    ELSE Append(d, [k |-> k, v |-> val])

DictHas(d, k) == \E i \in 1..Len(d.v) : d.v[i].k = k

DictGet(d, k) == d.v[CHOOSE i \in 1..Len(d.v) : d.v[i].k = k].v

\* format(value, ''), as an f-string replacement field without a format spec
\* applies it: str() of the value.
Format(val) ==
    CASE val.t = "str" -> val.v
      [] val.t = "bool" -> IF val.v THEN "True" ELSE "False"

----------------------------------------------------------------------------
(* Expressions and statements of the module body.                          *)

Const(val) == [e |-> "const", val |-> val]

Name(id) == [e |-> "name", id |-> id]

FormattedValue(id) == [e |-> "format", id |-> id]

ListDisplay(elts) == [e |-> "list", parts |-> elts]

\* items is the flattened key, value, key, value, ... sequence of the display.
DictDisplay(items) == [e |-> "dict", parts |-> items]

JoinedStr(parts) == [e |-> "fstr", parts |-> parts]

Str(s) == Const(StrV(s))

AssignStmt(target, expr) == [target |-> target, expr |-> expr]

----------------------------------------------------------------------------
(* The statements of conf.py, in file order.                               *)

project == AssignStmt("project", Str("STM32 DevOps Template"))

copyright == AssignStmt("copyright", Str("2025, Shishir Dey"))

author == AssignStmt("author", Str("Shishir Dey"))

release == AssignStmt("release", Str("v1.0.0"))

\* Faulty variant: the last two extensions grouped in a nested list.
extensions_nested ==
    AssignStmt("extensions", ListDisplay(<<
        Str("sphinx.ext.autodoc"),
        Str("sphinx.ext.viewcode"),
        Str("sphinx.ext.napoleon"),
        Str("sphinx.ext.githubpages"),
        Const(ListV(<<StrV("breathe"), StrV("myst_parser")>>))>>))

extensions ==
    AssignStmt("extensions", ListDisplay(<<
        Str("sphinx.ext.autodoc"),
        Str("sphinx.ext.viewcode"),
        Str("sphinx.ext.napoleon"),
        Str("sphinx.ext.githubpages"),
        Str("breathe"),
        Str("myst_parser")>>))

templates_path == AssignStmt("templates_path", ListDisplay(<<Str("_templates")>>))

\* Faulty variant: '_build' listed twice.
exclude_patterns_repeated ==
    AssignStmt("exclude_patterns",
               ListDisplay(<<Str("_build"), Str("Thumbs.db"), Str("_build")>>))

exclude_patterns ==
    AssignStmt("exclude_patterns",
               ListDisplay(<<Str("_build"), Str("Thumbs.db"), Str(".DS_Store")>>))

\* Faulty variant: the theme left empty.
html_theme_empty == AssignStmt("html_theme", Str(""))

html_theme == AssignStmt("html_theme", Str("sphinx_rtd_theme"))

html_static_path == AssignStmt("html_static_path", ListDisplay(<<Str("_static")>>))

\* Faulty variant: a second project entry.
breathe_projects_two ==
    AssignStmt("breathe_projects", DictDisplay(<<
        Str("STM32DevOpsTemplate"), Str("./doxygen/xml"),
        Str("STM32DevOpsTemplateHAL"), Str("./doxygen/hal/xml")>>))

breathe_projects ==
    AssignStmt("breathe_projects", DictDisplay(<<
        Str("STM32DevOpsTemplate"), Str("./doxygen/xml")>>))

\* Faulty variant: the default project mis-cased.
breathe_default_project_typo ==
    AssignStmt("breathe_default_project", Str("STM32DevopsTemplate"))

breathe_default_project ==
    AssignStmt("breathe_default_project", Str("STM32DevOpsTemplate"))

myst_enable_extensions ==
    AssignStmt("myst_enable_extensions", ListDisplay(<<
        Str("amsmath"),
        Str("colon_fence"),
        Str("deflist"),
        Str("dollarmath"),
        Str("html_admonition"),
        Str("html_image"),
        Str("linkify"),
        Str("replacements"),
        Str("smartquotes"),
        Str("substitution"),
        Str("tasklist")>>))

\* Faulty variant: the separating space dropped from the f-string.
html_title_unspaced ==
    AssignStmt("html_title",
               JoinedStr(<<FormattedValue("project"), FormattedValue("release")>>))

html_title ==
    AssignStmt("html_title",
               JoinedStr(<<FormattedValue("project"), Str(" "), FormattedValue("release")>>))

html_short_title == AssignStmt("html_short_title", Name("project"))

html_show_sourcelink == AssignStmt("html_show_sourcelink", Const(BoolV(FALSE)))

html_show_sphinx == AssignStmt("html_show_sphinx", Const(BoolV(FALSE)))

\* Faulty variant: the toggle wrapped in a list.
html_show_copyright_listed ==
    AssignStmt("html_show_copyright", ListDisplay(<<Const(BoolV(TRUE))>>))

html_show_copyright == AssignStmt("html_show_copyright", Const(BoolV(TRUE)))

\* Faulty variant: the github_version item missing.
html_context_no_branch ==
    AssignStmt("html_context", DictDisplay(<<
        Str("display_github"), Const(BoolV(TRUE)),
        Str("github_user"), Str("shishir-dey"),
        Str("github_repo"), Str("stm32-devops-template"),
        Str("conf_py_path"), Str("/docs/")>>))

html_context ==
    AssignStmt("html_context", DictDisplay(<<
        Str("display_github"), Const(BoolV(TRUE)),
        Str("github_user"), Str("shishir-dey"),
        Str("github_repo"), Str("stm32-devops-template"),
        Str("github_version"), Str("main/"),
        Str("conf_py_path"), Str("/docs/")>>))

\* Faulty variant: release assigned a second time at the end of the file.
Program_release_bumped ==
    << project, copyright, author, release,
       extensions, templates_path, exclude_patterns,
       html_theme, html_static_path,
       breathe_projects, breathe_default_project,
       myst_enable_extensions,
       html_title, html_short_title,
       html_show_sourcelink, html_show_sphinx, html_show_copyright,
       html_context,
       AssignStmt("release", Str("v1.0.1")) >>

Program ==
    << project, copyright, author, release,
       extensions, templates_path, exclude_patterns,
       html_theme, html_static_path,
       breathe_projects, breathe_default_project,
       myst_enable_extensions,
       html_title, html_short_title,
       html_show_sourcelink, html_show_sphinx, html_show_copyright,
       html_context >>

\* The names the module body binds.
Names ==
    { "project", "copyright", "author", "release",
      "extensions", "templates_path", "exclude_patterns",
      "html_theme", "html_static_path",
      "breathe_projects", "breathe_default_project",
      "myst_enable_extensions",
      "html_title", "html_short_title",
      "html_show_sourcelink", "html_show_sphinx", "html_show_copyright",
      "html_context" }

----------------------------------------------------------------------------
(* Evaluation of one assignment statement: the operands of its right-hand  *)
(* side left to right, then the value is built and bound to the target.    *)

\* The sub-expressions evaluated, in order, before the value is built.
Operands(expr) ==
    IF expr.e \in {"list", "dict", "fstr"} THEN expr.parts ELSE <<expr>>

\* Reading a name that has no binding raises NameError.
Raises(expr, ns) == expr.e \in {"name", "format"} /\ ~IsBound(ns[expr.id])

EvalOperand(expr, ns) ==
    CASE expr.e = "const" -> expr.val
      [] expr.e = "name" -> ns[expr.id]
      [] expr.e = "format" -> StrV(Format(ns[expr.id]))

RECURSIVE BuildDict(_)
BuildDict(kvs) ==
    IF Len(kvs) < 2 THEN <<>>
    ELSE DictSet(BuildDict(SubSeq(kvs, 1, Len(kvs) - 2)),
                 kvs[Len(kvs) - 1], kvs[Len(kvs)])

RECURSIVE BuildString(_)
BuildString(parts) ==
    IF parts = <<>> THEN "" ELSE Head(parts).v \o BuildString(Tail(parts))

Build(expr, operands) ==
    CASE expr.e = "list" -> ListV(operands)
      [] expr.e = "dict" -> DictV(BuildDict(operands))
      [] expr.e = "fstr" -> StrV(BuildString(operands))
      [] OTHER -> operands[1]

Finished == pc = Len(Program) + 1 /\ status = "ok"

Init ==
    /\ pc = 1
    /\ stack = <<>>
    /\ env = [n \in Names |-> Unbound]
    /\ stores = [n \in Names |-> 0]
    /\ status = "ok"
    /\ lastRead = [name |-> "", value |-> Unbound]
    /\ link = ""

\* One operand of the current statement's right-hand side is evaluated.
Eval ==
    /\ status = "ok"
    /\ pc <= Len(Program)
    /\ Len(stack) < Len(Operands(Program[pc].expr))
    /\ LET operand == Operands(Program[pc].expr)[Len(stack) + 1]
       IN  IF Raises(operand, env)
           THEN status' = "NameError" /\ UNCHANGED stack
           ELSE stack' = Append(stack, EvalOperand(operand, env)) /\ UNCHANGED status
    /\ UNCHANGED <<pc, env, stores, lastRead, link>>

\* The value is built from the operands and bound to the statement's target.
Assign ==
    /\ status = "ok"
    /\ pc <= Len(Program)
    /\ Len(stack) = Len(Operands(Program[pc].expr))
    /\ env' = [env EXCEPT ![Program[pc].target] = Build(Program[pc].expr, stack)]
    /\ stores' = [stores EXCEPT ![Program[pc].target] = @ + 1]
    /\ pc' = pc + 1
    /\ stack' = <<>>
    /\ UNCHANGED <<status, lastRead, link>>

----------------------------------------------------------------------------
(* The consumers: the generator reads a name of the evaluated namespace,   *)
(* the theme renders the edit link of a page from html_context.            *)

ReadConfig(n) ==
    /\ Finished
    /\ IsBound(env[n])
    /\ lastRead' = [name |-> n, value |-> env[n]]
    /\ UNCHANGED <<pc, stack, env, stores, status, link>>

Truthy(val) ==
    CASE val.t = "bool" -> val.v
      [] val.t = "str" -> val.v # ""
      [] OTHER -> Len(val.v) > 0

\* A template variable renders as its string, an undefined one as nothing.
Render(ctx, key) ==
    IF DictHas(ctx, StrV(key)) THEN Format(DictGet(ctx, StrV(key))) ELSE ""

\* The page view modes of the theme.
ViewModes == {"blob", "edit", "raw"}

\* user/repo/mode/ followed by the branch value and the path prefix.
EditLinkPath(ctx, mode) ==
    Render(ctx, "github_user") \o "/" \o Render(ctx, "github_repo") \o "/"
        \o mode \o "/"
        \o Render(ctx, "github_version") \o Render(ctx, "conf_py_path")

RenderEditLink(mode) ==
    /\ Finished
    /\ IsBound(env["html_context"])
    /\ env["html_context"].t = "dict"
    /\ DictHas(env["html_context"], StrV("display_github"))
    /\ Truthy(DictGet(env["html_context"], StrV("display_github")))
    /\ link' = EditLinkPath(env["html_context"], mode)
    /\ UNCHANGED <<pc, stack, env, stores, status, lastRead>>

Next ==
    \/ Eval
    \/ Assign
    \/ \E n \in Names : ReadConfig(n)
    \/ \E mode \in ViewModes : RenderEditLink(mode)

Spec == Init /\ [][Next]_vars

----------------------------------------------------------------------------
(* Shapes of values, and the path of the rendered link.                    *)

IsStr(val) == val.t = "str"

IsBool(val) == val.t = "bool"

IsMapping(val) == val.t = "dict"

IsListOfStr(val) ==
    /\ val.t = "list"
    /\ \A i \in 1..Len(val.v) : IsStr(val.v[i])

IsNonEmptyStr(val) == IsStr(val) /\ Len(val.v) > 0

Slashes(path) == {i \in 1..Len(path) : SubSeq(path, i, i) = "/"}

NthSlash(path, k) ==
    CHOOSE i \in Slashes(path) : Cardinality({j \in Slashes(path) : j <= i}) = k

\* The path segment between the k-th and the (k+1)-th '/'.
SegmentAfter(path, k) ==
    SubSeq(path, NthSlash(path, k) + 1, NthSlash(path, k + 1) - 1)

NoEmptySegment(path) ==
    \A i \in Slashes(path) : (i + 1) \notin Slashes(path)

ListNames ==
    { "extensions", "templates_path", "exclude_patterns",
      "html_static_path", "myst_enable_extensions" }

ToggleNames == {"html_show_sourcelink", "html_show_sphinx", "html_show_copyright"}

LinkFields == {"github_user", "github_repo", "github_version", "conf_py_path"}

----------------------------------------------------------------------------
(* C1: every top-level name is write-once.  A bound name is never rebound  *)
(* or changed by a later step, no name is bound more than once, at the end *)
(* of evaluation each of the eighteen names has been bound exactly once,   *)
(* and the value the generator reads is the value of that binding.         *)
C1_WriteOnce ==
    /\ [][\A n \in Names : IsBound(env[n]) => env'[n] = env[n]]_vars
    /\ [](\A n \in Names : stores[n] <= 1)
    /\ [](Finished => \A n \in Names : stores[n] = 1 /\ IsBound(env[n]))
    /\ [](lastRead.name \in Names => lastRead.value = env[lastRead.name])

C1_Witness ==
    /\ Finished
    /\ \A n \in Names : stores[n] = 1
    /\ lastRead = [name |-> "release", value |-> StrV("v1.0.0")]

(* C2: at the end of evaluation every declared list is a list whose        *)
(* elements are all strings.                                               *)
C2_ListsOfStrings ==
    Finished => \A n \in ListNames : IsListOfStr(env[n])

C2_Witness ==
    /\ Finished
    /\ Len(env["extensions"].v) = 6
    /\ Len(env["myst_enable_extensions"].v) = 11

(* C3: breathe_projects is a mapping with exactly one entry, whose value   *)
(* is a non-empty path string.                                             *)
C3_OneProjectEntry ==
    Finished =>
        /\ IsMapping(env["breathe_projects"])
        /\ Len(env["breathe_projects"].v) = 1
        /\ IsStr(env["breathe_projects"].v[1].k)
        /\ IsNonEmptyStr(env["breathe_projects"].v[1].v)

C3_Witness ==
    /\ Finished
    /\ DictHas(env["breathe_projects"], StrV("STM32DevOpsTemplate"))

(* C4: the elements of exclude_patterns are pairwise distinct.             *)
C4_ExcludePatternsDistinct ==
    Finished =>
        \A i, j \in 1..Len(env["exclude_patterns"].v) :
            i # j => env["exclude_patterns"].v[i] # env["exclude_patterns"].v[j]

C4_Witness ==
    /\ Finished
    /\ Len(env["exclude_patterns"].v) = 3

(* C5: html_theme and project are non-empty strings at the end of          *)
(* evaluation.                                                             *)
C5_IdentifiersNonEmpty ==
    Finished => IsNonEmptyStr(env["html_theme"]) /\ IsNonEmptyStr(env["project"])

C5_Witness ==
    /\ Finished
    /\ env["html_theme"] = StrV("sphinx_rtd_theme")
    /\ env["project"] = StrV("STM32 DevOps Template")

(* C6, as stated: every value bound at the top level is a string, a list   *)
(* of strings or a mapping, the three display toggles included.            *)
C6_ThreeShapes ==
    \A n \in Names :
        IsBound(env[n]) => IsStr(env[n]) \/ IsListOfStr(env[n]) \/ IsMapping(env[n])

(* C6, amended: every value bound at the top level is a string, a list of  *)
(* strings, a mapping or a boolean; the three display toggles are booleans *)
(* and every other name has one of the first three shapes.                 *)
C6_FourShapes ==
    \A n \in Names :
        IsBound(env[n]) =>
            IF n \in ToggleNames
            THEN IsBool(env[n])
            ELSE IsStr(env[n]) \/ IsListOfStr(env[n]) \/ IsMapping(env[n])

C6_Witness ==
    /\ Finished
    /\ env["html_show_sourcelink"] = BoolV(FALSE)
    /\ env["html_show_sphinx"] = BoolV(FALSE)
    /\ env["html_show_copyright"] = BoolV(TRUE)

(* C7: html_context is a mapping holding a non-empty string for each of    *)
(* github_user, github_repo, github_version and conf_py_path.              *)
C7_ContextComplete ==
    Finished =>
        /\ IsMapping(env["html_context"])
        /\ \A f \in LinkFields :
              /\ DictHas(env["html_context"], StrV(f))
              /\ IsNonEmptyStr(DictGet(env["html_context"], StrV(f)))

C7_Witness ==
    /\ Finished
    /\ DictGet(env["html_context"], StrV("github_repo")) = StrV("stm32-devops-template")
    /\ link # ""

(* C8: breathe_default_project is a string that is a key of                *)
(* breathe_projects, so the lookup of the default project yields a path.   *)
C8_DefaultProjectResolves ==
    Finished =>
        /\ IsStr(env["breathe_default_project"])
        /\ DictHas(env["breathe_projects"], env["breathe_default_project"])
        /\ IsNonEmptyStr(DictGet(env["breathe_projects"], env["breathe_default_project"]))

C8_Witness ==
    /\ Finished
    /\ env["breathe_default_project"] = StrV("STM32DevOpsTemplate")
    /\ DictHas(env["breathe_projects"], env["breathe_default_project"])
    /\ DictGet(env["breathe_projects"], env["breathe_default_project"])
           = StrV("./doxygen/xml")

(* C9: no name is read before it is bound; project and release are bound   *)
(* whenever the statement for html_title or html_short_title is being      *)
(* evaluated; at the end html_title is project, one space, release, and    *)
(* html_short_title is project.                                            *)
C9_TitlesDerived ==
    /\ status = "ok"
    /\ (pc <= Len(Program) /\ Program[pc].target \in {"html_title", "html_short_title"})
           => IsBound(env["project"]) /\ IsBound(env["release"])
    /\ Finished =>
           /\ IsStr(env["html_title"])
           /\ env["html_title"].v = env["project"].v \o " " \o env["release"].v
           /\ env["html_short_title"] = env["project"]

C9_Witness ==
    /\ Finished
    /\ env["html_title"] = StrV("STM32 DevOps Template v1.0.0")
    /\ env["html_short_title"] = StrV("STM32 DevOps Template")

(* C10: the rendered edit-link path has no empty segment (no two           *)
(* consecutive '/') and its branch segment, the one after the view mode,   *)
(* is exactly the branch value github_version.                             *)
C10_EditLinkWellFormed ==
    link # "" =>
        /\ NoEmptySegment(link)
        /\ SegmentAfter(link, 3) = Render(env["html_context"], "github_version")

====
